---- MODULE Spec2Model ----
\* Gemini Image Creator (src/app.py): the Streamlit script main(), its
\* credential lookup initialize_client(), and the two request adapters
\* generate_image() / modify_image(), as a state machine over script runs.
\*
\* One script run is a sequence of steps (pc); the values the widgets return
\* in a run (text_input, radio, text_area, file_uploader, checkbox, button)
\* and the remote service's behaviour are the run's inputs.  What survives a
\* run is the process environment variable GOOGLE_API_KEY (app.py:21) and the
\* session slot st.session_state.last_generated_image (app.py:114, 165).
EXTENDS Integers, Sequences, FiniteSets, TLC

\* ---------------------------------------------------------------- bounds

\* Longest response (number of parts) given to the adapters on their own.
MaxParts == 3
\* Longest response (number of parts) the remote service gives inside a run.
MaxPartsUI == 2

\* ---------------------------------------------------------------- values

\* Python's None.
None == "None"
\* A key that is not in a mapping / an attribute that was never set.
Absent == "Absent"

SecretValues == {Absent, "", "key_secret"}
EnvValues == {Absent, "", "key_env"}
TypedValues == {"", "key_typed"}

Prompts == {"", "p"}
UploadedFiles == {None, "fileU", "fileBad"}

PartTexts == {None, "", "a", "b"}
PartInline == {None, "bytesX", "bytesY", "bytesBad"}
Parts == [text : PartTexts, inline_data : PartInline]

\* The bytes PIL cannot identify: Image.open raises on them.
Undecodable == {"bytesBad", "fileBad"}

\* PIL.Image.open on bytes it can identify: the decoded image object.
Image_open(data) ==
    CASE data = "bytesX" -> "imgX"
      [] data = "bytesY" -> "imgY"
      [] data = "fileU" -> "imgU"
      [] OTHER -> "imgNever"

Images == {"imgX", "imgY", "imgU"}

SeqsUpTo(S, n) == UNION {[1..k -> S] : k \in 0..n}

\* What the remote call can do: raise (transport / authentication), answer
\* with no candidates, answer with a candidate without parts, or answer with
\* an ordered sequence of parts.
Responses(n) ==
    {[kind |-> k, parts |-> <<>>] : k \in {"raise", "no_candidates", "no_parts"}}
    \cup {[kind |-> "ok", parts |-> ps] : ps \in SeqsUpTo(Parts, n)}

\* Python truthiness of an optional string: `not v`.
Falsy(v) == v = None \/ v = "" \/ v = Absent

\* ------------------------------------------------------ initialize_client

\* dict.get(key, default): the default is used only when the key is absent.
secrets_get(store, default) == IF store # Absent THEN store ELSE default

\* os.environ.get(key): None when the variable is not set.
environ_get(e) == IF e = Absent THEN None ELSE e

initialize_client_nostop(store, default, typed) ==
    LET first == secrets_get(store, default)
    IN  [api_key |-> IF Falsy(first) THEN typed ELSE first,
         asked |-> Falsy(first),
         stopped |-> FALSE]

\* app.py:13-22, as a function of the secret store's entry, the value
\* os.environ.get returned, and what st.text_input returns when it is shown.
initialize_client(store, default, typed) ==
    LET first == secrets_get(store, default)
    IN  [api_key |-> IF Falsy(first) THEN typed ELSE first,
         asked |-> Falsy(first),
         stopped |-> Falsy(first) /\ Falsy(typed)]

\* ------------------------------------------- generate_image / modify_image

\* The exception classes the try body can raise; all derive from Exception.
ExceptionClasses == {"APIError", "IndexError", "TypeError", "UnidentifiedImageError"}

Caught_api_only(exc) == exc = "APIError"

\* `except Exception as e` (app.py:45, 70).
Caught(exc) == exc \in ExceptionClasses

EmptyResult == [exc |-> None, image |-> None, text |-> None]

RECURSIVE process_parts_first(_, _)
process_parts_first(parts, result) ==
    IF parts = <<>> THEN result
    ELSE LET part == Head(parts)
         IN  IF part.text # None
             THEN process_parts_first(Tail(parts),
                      IF result.text = None THEN [result EXCEPT !.text = part.text]
                      ELSE result)
             ELSE IF part.inline_data # None
                  THEN IF part.inline_data \in Undecodable
                       THEN [result EXCEPT !.exc = "UnidentifiedImageError"]
                       ELSE process_parts_first(Tail(parts),
                                IF result.image = None
                                THEN [result EXCEPT !.image = Image_open(part.inline_data)]
                                ELSE result)
                  ELSE process_parts_first(Tail(parts), result)

\* The loop over response.candidates[0].content.parts (app.py:37-42, 62-67).
RECURSIVE process_parts(_, _)
process_parts(parts, result) ==
    IF parts = <<>> THEN result
    ELSE LET part == Head(parts)
         IN  IF part.text # None
             THEN process_parts(Tail(parts), [result EXCEPT !.text = part.text])
             ELSE IF part.inline_data # None
                  THEN IF part.inline_data \in Undecodable
                       THEN [result EXCEPT !.exc = "UnidentifiedImageError"]
                       ELSE process_parts(Tail(parts),
                                [result EXCEPT !.image = Image_open(part.inline_data)])
                  ELSE process_parts(Tail(parts), result)

\* The try body (app.py:27-44, 52-69): the exception it raises, or the result.
try_body(resp) ==
    CASE resp.kind = "raise" -> [EmptyResult EXCEPT !.exc = "APIError"]
      [] resp.kind = "no_candidates" -> [EmptyResult EXCEPT !.exc = "IndexError"]
      [] resp.kind = "no_parts" -> [EmptyResult EXCEPT !.exc = "TypeError"]
      [] OTHER -> process_parts(resp.parts, EmptyResult)

\* A returned value: Python None (isNone) or the dict {"image", "text"}.
NoneResult == [isNone |-> TRUE, image |-> None, text |-> None]

\* try / except around the body: what was sent, what is returned, the
\* st.error message, and whether an exception leaves the function.
call_outcome(request, resp, message) ==
    LET out == try_body(resp)
    IN  [sent |-> <<request>>,
         result |-> IF out.exc = None
                    THEN [isNone |-> FALSE, image |-> out.image, text |-> out.text]
                    ELSE NoneResult,
         error |-> IF out.exc # None /\ Caught(out.exc) THEN message ELSE None,
         propagated |-> out.exc # None /\ ~Caught(out.exc)]

generate_image_retry(prompt_, client, resp) ==
    LET request == [contents |-> <<prompt_>>, api_key |-> client]
        once == call_outcome(request, resp, "Error generating image")
    IN  IF once.result.isNone THEN [once EXCEPT !.sent = <<request, request>>]
        ELSE once

\* app.py:25-47.
generate_image(prompt_, client, resp) ==
    call_outcome([contents |-> <<prompt_>>, api_key |-> client], resp,
                 "Error generating image")

\* app.py:50-72.
modify_image(prompt_, image_, client, resp) ==
    call_outcome([contents |-> <<prompt_, image_>>, api_key |-> client], resp,
                 "Error modifying image")

\* ------------------------------------------------------------------ main

show_result_always(result_, slot) ==
    IF ~result_.isNone
    THEN [shown |-> {"image", "download"}
                    \cup (IF ~Falsy(result_.text) THEN {"model_response"} ELSE {}),
          slot |-> result_.image]
    ELSE [shown |-> {}, slot |-> slot]

show_result_nostore(result_, slot) ==
    IF ~result_.isNone /\ result_.image # None
    THEN [shown |-> {"image", "download"}
                    \cup (IF ~Falsy(result_.text) THEN {"model_response"} ELSE {}),
          slot |-> slot]
    ELSE [shown |-> {}, slot |-> slot]

\* `if result and result["image"]:` and its block (app.py:94-114, 145-165):
\* what is displayed and what the session slot holds afterwards.
show_result(result_, slot) ==
    IF ~result_.isNone /\ result_.image # None
    THEN [shown |-> {"image", "download"}
                    \cup (IF ~Falsy(result_.text) THEN {"model_response"} ELSE {}),
          slot |-> result_.image]
    ELSE [shown |-> {}, slot |-> slot]

select_image_fallthrough(file, use_last, slot) ==
    IF file # None
    THEN IF file \in Undecodable
         THEN [outcome |-> "crash", image |-> None, shown |-> {}]
         ELSE [outcome |-> "ok", image |-> Image_open(file), shown |-> {"uploaded_image"}]
    ELSE IF use_last
         THEN [outcome |-> "ok", image |-> slot, shown |-> {"last_image"}]
         ELSE [outcome |-> "ok", image |-> None, shown |-> {"info"}]

select_image_prefers_last(file, use_last, slot) ==
    IF use_last
    THEN [outcome |-> "ok", image |-> slot, shown |-> {"last_image"}]
    ELSE IF file # None
         THEN IF file \in Undecodable
              THEN [outcome |-> "crash", image |-> None, shown |-> {}]
              ELSE [outcome |-> "ok", image |-> Image_open(file), shown |-> {"uploaded_image"}]
         ELSE [outcome |-> "return", image |-> None, shown |-> {"info"}]

\* The choice of the source image in Modify mode (app.py:127-135).  Image.open
\* on the upload is outside any try: an undecodable upload ends the run with
\* an uncaught exception.
select_image(file, use_last, slot) ==
    IF file # None
    THEN IF file \in Undecodable
         THEN [outcome |-> "crash", image |-> None, shown |-> {}]
         ELSE [outcome |-> "ok", image |-> Image_open(file), shown |-> {"uploaded_image"}]
    ELSE IF use_last
         THEN [outcome |-> "ok", image |-> slot, shown |-> {"last_image"}]
         ELSE [outcome |-> "return", image |-> None, shown |-> {"info"}]

\* ------------------------------------------------------------------ state

VARIABLES
    secrets,              \* st.secrets' entry GOOGLE_API_KEY
    env,                  \* os.environ's entry GOOGLE_API_KEY
    last_generated_image, \* st.session_state.last_generated_image
    pc,                   \* where the current script run is
    env_default,          \* what os.environ.get returned at app.py:14
    typed,                \* what st.text_input returned, when it was shown
    api_key,              \* the key the client was built with
    page,
    prompt,               \* prompt / modification_prompt
    uploaded_file,
    use_last_generated,
    image,                \* the source image of Modify mode
    button,               \* what st.button returned
    response,             \* what the remote service did in this run's call
    result,
    requests,             \* the requests this run sent to the remote service
    shown                 \* what this run put on the page

vars == <<secrets, env, last_generated_image, pc, env_default, typed, api_key,
          page, prompt, uploaded_file, use_last_generated, image, button,
          response, result, requests, shown>>

persistent == <<secrets, env, last_generated_image>>

NoResponse == [kind |-> "none", parts |-> <<>>]

\* The state of a script run that has not executed anything yet.
FreshRun ==
    /\ env_default = None
    /\ typed = None
    /\ api_key = None
    /\ page = None
    /\ prompt = None
    /\ uploaded_file = None
    /\ use_last_generated = FALSE
    /\ image = None
    /\ button = FALSE
    /\ response = NoResponse
    /\ result = NoneResult
    /\ requests = <<>>
    /\ shown = {}

Init ==
    /\ secrets \in SecretValues
    /\ env \in EnvValues
    /\ last_generated_image = Absent
    /\ pc = "start"
    /\ FreshRun

\* Streamlit runs the script again on every interaction.
Rerun ==
    /\ pc \in {"done", "stopped", "crashed"}
    /\ pc' = "start"
    /\ env_default' = None
    /\ typed' = None
    /\ api_key' = None
    /\ page' = None
    /\ prompt' = None
    /\ uploaded_file' = None
    /\ use_last_generated' = FALSE
    /\ image' = None
    /\ button' = FALSE
    /\ response' = NoResponse
    /\ result' = NoneResult
    /\ requests' = <<>>
    /\ shown' = {}
    /\ UNCHANGED persistent

\* client = initialize_client() (app.py:78, 13-22).
InitializeClient ==
    /\ pc = "start"
    /\ \E t \in TypedValues :
         LET d == environ_get(env)
             r == initialize_client(secrets, d, t)
         IN  /\ env_default' = d
             /\ typed' = IF r.asked THEN t ELSE None
             /\ api_key' = r.api_key
             /\ shown' = shown \cup (IF r.asked THEN {"key_input"} ELSE {})
                               \cup (IF r.stopped THEN {"warning"} ELSE {})
             /\ env' = IF r.stopped THEN env ELSE r.api_key
             /\ pc' = IF r.stopped THEN "stopped" ELSE "main"
    /\ UNCHANGED <<secrets, last_generated_image, page, prompt, uploaded_file,
                   use_last_generated, image, button, response, result, requests>>

\* The Generate page up to its button (app.py:81-90).
MainGenerate ==
    /\ pc = "main"
    /\ page' = "Generate New Image"
    /\ \E p \in Prompts, b \in BOOLEAN :
         /\ prompt' = p
         /\ button' = b
         /\ pc' = IF b THEN "generate_call" ELSE "done"
    /\ UNCHANGED <<persistent, env_default, typed, api_key, uploaded_file,
                   use_last_generated, image, response, result, requests, shown>>

\* The Modify page up to its button (app.py:81, 116-141).
MainModify ==
    /\ pc = "main"
    /\ page' = "Modify Existing Image"
    /\ \E f \in UploadedFiles, c \in BOOLEAN, p \in Prompts, b \in BOOLEAN :
         LET use_last == IF last_generated_image # Absent THEN c ELSE FALSE
             sel == select_image(f, use_last, last_generated_image)
         IN  /\ uploaded_file' = f
             /\ use_last_generated' = use_last
             /\ image' = sel.image
             /\ shown' = shown \cup sel.shown
             /\ IF sel.outcome = "ok"
                THEN /\ prompt' = p
                     /\ button' = b
                     /\ pc' = IF b THEN "modify_call" ELSE "done"
                ELSE /\ prompt' = None
                     /\ button' = FALSE
                     /\ pc' = IF sel.outcome = "crash" THEN "crashed" ELSE "done"
    /\ UNCHANGED <<persistent, env_default, typed, api_key, response, result,
                   requests>>

\* result = generate_image(prompt, client) (app.py:92).
GenerateCall(R) ==
    /\ pc = "generate_call"
    /\ \E resp \in R :
         LET o == generate_image(prompt, api_key, resp)
         IN  /\ response' = resp
             /\ requests' = requests \o o.sent
             /\ result' = o.result
             /\ shown' = shown \cup (IF o.error # None THEN {o.error} ELSE {})
             /\ pc' = IF o.propagated THEN "crashed" ELSE "generate_show"
    /\ UNCHANGED <<persistent, env_default, typed, api_key, page, prompt,
                   uploaded_file, use_last_generated, image, button>>

\* result = modify_image(modification_prompt, image, client) (app.py:143).
ModifyCall(R) ==
    /\ pc = "modify_call"
    /\ \E resp \in R :
         LET o == modify_image(prompt, image, api_key, resp)
         IN  /\ response' = resp
             /\ requests' = requests \o o.sent
             /\ result' = o.result
             /\ shown' = shown \cup (IF o.error # None THEN {o.error} ELSE {})
             /\ pc' = IF o.propagated THEN "crashed" ELSE "modify_show"
    /\ UNCHANGED <<persistent, env_default, typed, api_key, page, prompt,
                   uploaded_file, use_last_generated, image, button>>

\* app.py:94-114.
GenerateShow ==
    /\ pc = "generate_show"
    /\ LET s == show_result(result, last_generated_image)
       IN  /\ shown' = shown \cup s.shown
           /\ last_generated_image' = s.slot
    /\ pc' = "done"
    /\ UNCHANGED <<secrets, env, env_default, typed, api_key, page, prompt,
                   uploaded_file, use_last_generated, image, button, response,
                   result, requests>>

\* app.py:145-165.
ModifyShow ==
    /\ pc = "modify_show"
    /\ LET s == show_result(result, last_generated_image)
       IN  /\ shown' = shown \cup s.shown
           /\ last_generated_image' = s.slot
    /\ pc' = "done"
    /\ UNCHANGED <<secrets, env, env_default, typed, api_key, page, prompt,
                   uploaded_file, use_last_generated, image, button, response,
                   result, requests>>

GenerateCallUI == GenerateCall(Responses(MaxPartsUI))
ModifyCallUI == ModifyCall(Responses(MaxPartsUI))

Next ==
    \/ Rerun
    \/ InitializeClient
    \/ MainGenerate
    \/ MainModify
    \/ GenerateCallUI
    \/ GenerateShow
    \/ ModifyCallUI
    \/ ModifyShow

Spec == Init /\ [][Next]_vars

\* The adapters on their own: a run that has reached the call with a key, a
\* prompt and (for modify_image) a source image, and a response of any shape
\* up to MaxParts parts.
InitAdapter ==
    /\ secrets = "key_secret"
    /\ env = "key_secret"
    /\ last_generated_image = Absent
    /\ env_default \in {None, "key_secret"}
    /\ typed = None
    /\ api_key = "key_secret"
    /\ prompt \in Prompts
    /\ button = TRUE
    /\ use_last_generated = FALSE
    /\ response = NoResponse
    /\ result = NoneResult
    /\ requests = <<>>
    /\ \/ /\ pc = "generate_call"
          /\ page = "Generate New Image"
          /\ uploaded_file = None
          /\ image = None
          /\ shown = {}
       \/ /\ pc = "modify_call"
          /\ page = "Modify Existing Image"
          /\ uploaded_file = "fileU"
          /\ image = "imgU"
          /\ shown = {"uploaded_image"}

AdapterGenerate == GenerateCall(Responses(MaxParts))
AdapterModify == ModifyCall(Responses(MaxParts))

NextAdapter == AdapterGenerate \/ AdapterModify

SpecAdapter == InitAdapter /\ [][NextAdapter]_vars

\* ----------------------------------------------------------- properties

ErrorMessages == {"Error generating image", "Error modifying image"}

DecodedImages == {Image_open(d) : d \in PartInline \ ({None} \cup Undecodable)}

\* The call of this run has been made.
Called == requests # <<>>

Max(S) == CHOOSE x \in S : \A y \in S : y <= x

\* The text of the last part that carries text.
LastText(parts) ==
    LET idx == {i \in 1..Len(parts) : parts[i].text # None}
    IN  IF idx = {} THEN None ELSE parts[Max(idx)].text

\* The decoded inline data of the last part that carries inline data.
LastImage(parts) ==
    LET idx == {i \in 1..Len(parts) : parts[i].inline_data # None}
    IN  IF idx = {} THEN None ELSE Image_open(parts[Max(idx)].inline_data)

\* The decoded inline data of the last part that carries inline data and no text.
LastImageWithoutText(parts) ==
    LET idx == {i \in 1..Len(parts) :
                   parts[i].inline_data # None /\ parts[i].text = None}
    IN  IF idx = {} THEN None ELSE Image_open(parts[Max(idx)].inline_data)

\* C1: whatever the remote service does (raise, no candidates, no parts, any
\* sequence of parts, undecodable bytes), no exception leaves generate_image
\* or modify_image, and the call ends in exactly one of: a returned record
\* whose image and text are None or a decoded value / a text, with no error
\* reported; or an error message reported and None returned.
C1_NoExceptionEscapes ==
    Called =>
        /\ pc # "crashed"
        /\ \/ /\ ~result.isNone
              /\ result.image \in DecodedImages \cup {None}
              /\ result.text \in PartTexts
              /\ shown \cap ErrorMessages = {}
           \/ /\ result.isNone
              /\ Cardinality(shown \cap ErrorMessages) = 1

C1_Witness ==
    /\ Called
    /\ response.kind = "ok"
    /\ \E i \in 1..Len(response.parts) : response.parts[i].inline_data = "bytesBad"
    /\ result.isNone
    /\ "Error modifying image" \in shown

\* C2 as claimed: the returned text is that of the last part carrying text
\* and the returned image is the decoded inline data of the last part
\* carrying inline data, whether or not that part also carries text.
C2_Original ==
    (Called /\ ~result.isNone) =>
        /\ result.text = LastText(response.parts)
        /\ result.image = LastImage(response.parts)

\* C2 amended: the returned text is that of the last part carrying text; the
\* returned image is the decoded inline data of the last part that carries
\* inline data and no text (a part that carries text contributes only text).
C2_LastOfKindWins ==
    (Called /\ ~result.isNone) =>
        /\ response.kind = "ok"
        /\ result.text = LastText(response.parts)
        /\ result.image = LastImageWithoutText(response.parts)

C2_Witness ==
    /\ Called
    /\ response.kind = "ok"
    /\ response.parts = << [text |-> "a", inline_data |-> None],
                           [text |-> None, inline_data |-> "bytesX"],
                           [text |-> "b", inline_data |-> None] >>
    /\ result = [isNone |-> FALSE, image |-> "imgX", text |-> "b"]

NoImagePart(resp) ==
    \A i \in 1..Len(resp.parts) : resp.parts[i].inline_data = None

\* C3: in both modes, a run whose call failed or whose response has no image
\* part has no image in its result and offers no download; a download is
\* offered only in a run whose result has an image, which is displayed.
C3_DownloadOnlyWithImage ==
    /\ (Called /\ (response.kind # "ok" \/ NoImagePart(response))) =>
           /\ result.isNone \/ result.image = None
           /\ "download" \notin shown
    /\ "download" \in shown =>
           /\ Called
           /\ ~result.isNone
           /\ result.image \in DecodedImages
           /\ "image" \in shown

C3_Witness ==
    /\ pc = "done"
    /\ page = "Modify Existing Image"
    /\ Called
    /\ response.kind = "ok"
    /\ response.parts # <<>>
    /\ NoImagePart(response)
    /\ result.text = "a"
    /\ "download" \notin shown

\* C4: in Modify mode with no upload and no reuse of the last generated image
\* (slot never set, or checkbox unchecked), the run shows the guidance and
\* ends: no button is read and no request is sent.
C4_NoSourceNoCall ==
    (page = "Modify Existing Image" /\ uploaded_file = None /\ ~use_last_generated) =>
        /\ "info" \in shown
        /\ pc = "done"
        /\ ~button
        /\ requests = <<>>
        /\ response = NoResponse

C4_Witness ==
    /\ page = "Modify Existing Image"
    /\ uploaded_file = None
    /\ last_generated_image \in Images
    /\ ~use_last_generated
    /\ "info" \in shown

\* C5: a request is sent only with the non-empty key obtained earlier in the
\* same run; when the secret store, the environment and the text input all
\* yield no key the run stops before the page is chosen, and sends nothing.
C5_KeyBeforeCall ==
    /\ pc \in {"generate_call", "modify_call"} \/ Called =>
           /\ ~Falsy(api_key)
           /\ \A i \in 1..Len(requests) : requests[i].api_key = api_key
    /\ (pc # "start" /\ Falsy(secrets) /\ Falsy(env_default) /\ Falsy(typed)) =>
           /\ pc = "stopped"
           /\ "warning" \in shown
    /\ pc = "stopped" => (page = None /\ ~button /\ requests = <<>>)

C5_Witness ==
    /\ pc = "stopped"
    /\ secrets = Absent
    /\ env = Absent
    /\ typed = ""

\* C6 as claimed: after any call that returns a result, the slot holds the
\* image of that call.
C6_Original ==
    (pc = "done" /\ Called /\ ~result.isNone) =>
        last_generated_image = result.image

\* C6 amended: after any call that returns a result with an image, the slot
\* holds the image of that call; and the image Modify mode reuses is the one
\* the slot holds when it is read.
C6_SlotHoldsLastImage ==
    /\ (pc = "done" /\ Called /\ ~result.isNone /\ result.image # None) =>
           last_generated_image = result.image
    /\ (pc \in {"modify_call", "modify_show"} /\ uploaded_file = None) =>
           /\ use_last_generated
           /\ image = last_generated_image

C6_Witness ==
    /\ pc = "done"
    /\ page = "Modify Existing Image"
    /\ uploaded_file = None
    /\ use_last_generated
    /\ image = "imgX"
    /\ result.image = "imgY"
    /\ last_generated_image = "imgY"

\* The first usable (non-empty) key in priority order.
PriorityKey(store, e, t) ==
    IF ~Falsy(store) THEN store ELSE IF ~Falsy(e) THEN e ELSE t

\* C7: the key is the secret store's when usable, otherwise the environment
\* variable's when usable, otherwise the typed one; the text input is asked
\* only when neither higher source yields a usable key, and the run stops
\* only when no source does.
C7_Original ==
    pc # "start" =>
        /\ api_key = PriorityKey(secrets, env_default, typed)
        /\ "key_input" \in shown <=> (Falsy(secrets) /\ Falsy(env_default))
        /\ pc = "stopped" <=>
               (Falsy(secrets) /\ Falsy(env_default) /\ Falsy(typed))

\* C8: a run sends exactly one request when its button was pressed and none
\* otherwise; a failure or a response without an image is not retried.
C8_OneRequestPerPress ==
    /\ Len(requests) <= 1
    /\ pc \in {"generate_show", "modify_show", "done", "stopped", "crashed"} =>
           Len(requests) = (IF button THEN 1 ELSE 0)
    /\ pc \in {"start", "main", "generate_call", "modify_call"} => requests = <<>>

C8_Witness ==
    /\ pc = "done"
    /\ button
    /\ result.isNone
    /\ Len(requests) = 1

\* C9: the slot changes only when a returned result with an image is stored;
\* a failed attempt or a result without an image leaves it as it was; once
\* set it is never unset and never None.
C9_SlotFrame ==
    /\ [](last_generated_image \in {Absent} \cup DecodedImages)
    /\ [][/\ last_generated_image # Absent => last_generated_image' \in DecodedImages
          /\ last_generated_image' # last_generated_image =>
                 /\ pc \in {"generate_show", "modify_show"}
                 /\ ~result.isNone
                 /\ result.image # None
                 /\ last_generated_image' = result.image]_vars

C9_Witness ==
    /\ pc = "done"
    /\ Called
    /\ result.isNone \/ result.image = None
    /\ last_generated_image \in DecodedImages

\* C10: in Modify mode the request is the pair (instruction, source image);
\* the source is the decoded upload whenever a file is uploaded, also when
\* the reuse checkbox is checked; the slot's image is sent only when no file
\* is uploaded and the checkbox is checked.
C10_UploadWins ==
    (page = "Modify Existing Image" /\ Called) =>
        /\ Len(requests[1].contents) = 2
        /\ requests[1].contents[1] = prompt
        /\ uploaded_file # None => requests[1].contents[2] = Image_open(uploaded_file)
        /\ uploaded_file = None =>
               /\ use_last_generated
               /\ requests[1].contents[2] \in DecodedImages
               /\ pc = "modify_show" => requests[1].contents[2] = last_generated_image

C10_Witness ==
    /\ page = "Modify Existing Image"
    /\ Called
    /\ uploaded_file = "fileU"
    /\ use_last_generated
    /\ last_generated_image \in DecodedImages
    /\ requests[1].contents = <<prompt, "imgU">>

====
